---- MODULE Spec2Model ----
(***************************************************************************)
(* The buffer lifecycle of one allocated V4L2 queue: the pre-submission    *)
(* buffer QBuffer (device/queue/qbuf.rs) with its four submit operations,  *)
(* the registry of per-slot buffer states, the state fuse, the device's    *)
(* set of submitted slots and the application's pool of memory handles.    *)
(***************************************************************************)
EXTENDS Integers, Sequences, FiniteSets, Bags, TLC

\* NUM_BUFFERS of the example pipeline: the buffers it allocates on a queue.
NumBuffers == 2

\* ------------------------------------------------------------------ bounds
MaxPlanes == 2
NumHandles == 4
MaxBytes == 1
MaxTimestamp == 1

Slots == 0 .. (NumBuffers - 1)
Handles == 1 .. NumHandles
Range(s) == {s[k] : k \in DOMAIN s}

\* Sequences over S of length 0 .. n.
SeqsUpTo(S, n) == UNION {[1 .. k -> S] : k \in 0 .. n}

\* A handle set the application can build from the handles it holds: one
\* handle per entry, no handle twice (a handle is moved into the set).
HandleSets(pool) ==
    {h \in SeqsUpTo(pool, MaxPlanes + 1) : Cardinality(Range(h)) = Len(h)}

\* free_buffers.pop_front(), k times: the application's handles are
\* interchangeable, it takes the k lowest it holds.
Lowest(pool) == CHOOSE x \in pool : \A y \in pool : x <= y
RECURSIVE PopFront(_, _)
PopFront(pool, k) ==
    IF k = 0 THEN <<>>
    ELSE <<Lowest(pool)>> \o PopFront(pool \ {Lowest(pool)}, k - 1)
\* The sizes of handle set the application can try: none, fewer, as many as
\* or more than the planes of a slot.
HandleCounts(pool) == {k \in 0 .. (MaxPlanes + 1) : k <= Cardinality(pool)}

\* As in the example: every plane is used in full, whatever the list's length.
FullBytesUsedLists == {[i \in 1 .. k |-> MaxBytes] : k \in 0 .. (MaxPlanes + 1)}

BytesUsedLists == SeqsUpTo(0 .. MaxBytes, MaxPlanes + 1)

\* ------------------------------------------------------------- the registry
\* BufferState: the state of one slot of the registry.
Free == [tag |-> "Free", handles |-> <<>>]
PreQueue == [tag |-> "PreQueue", handles |-> <<>>]
Queued(handles) == [tag |-> "Queued", handles |-> handles]
Dequeued == [tag |-> "Dequeued", handles |-> <<>>]

\* BufferInfo::update_state: the one mutation path of a slot's state.
UpdateState(st, index, new) == [st EXCEPT ![index] = new]

\* BufferStateFuse: armed on a slot until disarmed.
FuseNew(index) == [armed |-> TRUE, index |-> index]
\* disarm() that leaves the fuse armed.
FuseDisarm_Noop(fuse) == fuse

FuseDisarm(fuse) == [fuse EXCEPT !.armed = FALSE]
\* Dropping the fuse: an armed fuse forces its slot back to Free.
FuseDrop(fuse, st) ==
    IF fuse.armed /\ fuse.index \in DOMAIN st
    THEN UpdateState(st, fuse.index, Free)
    ELSE st

\* ------------------------------------------------------------------- errors
NumPlanesMismatch(got, expected) ==
    [kind |-> "NumPlanesMismatch", got |-> got, expected |-> expected]
IoctlFailed == [kind |-> "IoctlError", got |-> 0, expected |-> 0]

QueueError(error, plane_handles) ==
    [tag |-> "Err", error |-> error, plane_handles |-> plane_handles]
\* The results that carry neither an error nor handles.
NoError == [kind |-> "None", got |-> 0, expected |-> 0]
Plain(tag) == [tag |-> tag, error |-> NoError, plane_handles |-> <<>>]
Ok == Plain("Ok")
Panic == Plain("Panic")

\* ------------------------------------------------------------------ QBuffer
NoHandle == 0
NoIoctl == [issued |-> FALSE, ok |-> FALSE, index |-> -1, planes |-> <<>>,
            timestamp |-> 0]

QBufPlane(bytesused, handle) == [bytesused |-> bytesused, handle |-> handle]

\* Default::default() of a primitive handle set.
DefaultHandles == <<>>

\* ---------------------------------------------------------------- the state
VARIABLES
    direction,   \* "Capture" or "Output": the queue's direction
    features,    \* per slot: its index and its number of planes
    state,       \* per slot: its BufferState
    qbufs,       \* the live pre-submission buffers (a bag of QBuffer)
    dqbufs,      \* the live post-retrieval buffers
    devQueued,   \* the slots the device holds (submitted, not yet retrieved)
    appPool,     \* the handles the application holds outside any buffer
    lastCall,    \* the last operation: its inputs, its device call, its result
    sinceSubmit, \* per slot: what has happened since its last device submit
    inflight     \* the submit that is between its device call and its return

vars == <<direction, features, state, qbufs, dqbufs, devQueued, appPool, lastCall,
          sinceSubmit, inflight>>

\* The history of a slot since the device last accepted it: "never" accepted,
\* "submitted" ("resubmitted" when not for the first time), then "retrieved"
\* from the device, then "freed" in the registry.
Track(since, i, event) ==
    CASE event = "submit" ->
             [since EXCEPT ![i] = IF @ = "never" THEN "submitted" ELSE "resubmitted"]
      [] event = "retrieve" /\ since[i] \in {"submitted", "resubmitted"} ->
             [since EXCEPT ![i] = "retrieved"]
      [] event = "free" /\ since[i] = "retrieved" -> [since EXCEPT ![i] = "freed"]
      [] OTHER -> since

Call(op, index, handles, bytes_used, ioctl, ret) ==
    [op |-> op, index |-> index, handles |-> handles,
     bytes_used |-> bytes_used, ioctl |-> ioctl, ret |-> ret]

\* No submit is under way.
NoSubmit ==
    [pc |-> "idle", op |-> "", index |-> -1, handles |-> <<>>, bytes_used |-> <<>>,
     plane_handles |-> <<>>, ioctl |-> NoIoctl,
     fuse |-> [armed |-> FALSE, index |-> -1], disarms |-> 0]

Unit == Plain("Unit")
Some == Plain("Some")
None == Plain("None")

\* The handles the application holds: its pool and those a returned
\* QueueError gave back.
Reclaimed == appPool \cup Range(lastCall.ret.plane_handles)

\* QBuffer::new with a fuse that is bound to no registry entry.
NewQBuffer_NoFuse(buffer) ==
    [index |-> buffer.index,
     num_planes |-> buffer.planes,
     timestamp |-> 0,
     fuse |-> FuseDisarm(FuseNew(buffer.index))]

\* QBuffer::new taking the index of the first buffer, not of the one given.
NewQBuffer_FirstIndex(buffer) ==
    [index |-> 0,
     num_planes |-> buffer.planes,
     timestamp |-> 0,
     fuse |-> FuseNew(buffer.index)]

\* QBuffer::new taking the index after the one of the buffer it is given.
NewQBuffer_NextIndex(buffer) ==
    [index |-> buffer.index + 1,
     num_planes |-> buffer.planes,
     timestamp |-> 0,
     fuse |-> FuseNew(buffer.index)]

\* QBuffer::new arming the fuse on the first buffer, not on the one given.
NewQBuffer_FuseFirst(buffer) ==
    [index |-> buffer.index,
     num_planes |-> buffer.planes,
     timestamp |-> 0,
     fuse |-> FuseNew(0)]

\* QBuffer::new
NewQBuffer(buffer) ==
    [index |-> buffer.index,
     num_planes |-> buffer.planes,
     timestamp |-> 0,
     fuse |-> FuseNew(buffer.index)]

Index(q) == q.index
NumExpectedPlanes(q) == q.num_planes
SetTimestampOf(q, timestamp) == [q EXCEPT !.timestamp = timestamp]

\* What a submit operation leaves behind: its result, the buffer's fuse, the
\* registry, the device's set and the device call it issued.
Outcome(ret, fuse, st, dev, ioctl) ==
    [ret |-> ret, fuse |-> fuse, state |-> st, dev |-> dev, ioctl |-> ioctl]

\* ioctl::qbuf as issued by queue_bound_planes.
QBufIoctl(q, planes, devOk) ==
    [issued |-> TRUE, ok |-> devOk, index |-> Index(q), planes |-> planes,
     timestamp |-> q.timestamp]

\* queue_bound_planes without its self.fuse.disarm(): the fuse fires when the
\* consumed buffer is destroyed.
QueueBoundPlanes_NoDisarm(q, planes, plane_handles, devOk, st, dev) ==
    LET ioctl == QBufIoctl(q, planes, devOk)
    IN  IF ~devOk
        THEN Outcome(QueueError(IoctlFailed, plane_handles), q.fuse, st, dev, ioctl)
        ELSE Outcome(Ok, q.fuse,
                     UpdateState(st, Index(q), Queued(plane_handles)),
                     dev \cup {Index(q)}, ioctl)

\* queue_bound_planes disarming its fuse before the device call instead of
\* after it.
QueueBoundPlanes_DisarmFirst(q, planes, plane_handles, devOk, st, dev) ==
    LET ioctl == QBufIoctl(q, planes, devOk)
        fuse == FuseDisarm(q.fuse)
    IN  IF ~devOk
        THEN Outcome(QueueError(IoctlFailed, plane_handles), fuse, st, dev, ioctl)
        ELSE Outcome(Ok, fuse,
                     UpdateState(st, Index(q), Queued(plane_handles)),
                     dev \cup {Index(q)}, ioctl)

\* queue_bound_planes keeping the handles on a device failure: the error
\* carries a default handle set.
QueueBoundPlanes_KeepsHandles(q, planes, plane_handles, devOk, st, dev) ==
    LET ioctl == QBufIoctl(q, planes, devOk)
    IN  IF ~devOk
        THEN Outcome(QueueError(IoctlFailed, DefaultHandles), q.fuse, st, dev, ioctl)
        ELSE Outcome(Ok, FuseDisarm(q.fuse),
                     UpdateState(st, Index(q), Queued(plane_handles)),
                     dev \cup {Index(q)}, ioctl)

\* QBuffer::queue_bound_planes
QueueBoundPlanes(q, planes, plane_handles, devOk, st, dev) ==
    LET ioctl == QBufIoctl(q, planes, devOk)
    IN  IF ~devOk
        THEN Outcome(QueueError(IoctlFailed, plane_handles), q.fuse, st, dev, ioctl)
        ELSE LET fuse == FuseDisarm(q.fuse)
                 dev2 == dev \cup {Index(q)}
             IN  IF Index(q) \notin DOMAIN st
                 THEN Outcome(Panic, fuse, st, dev2, ioctl)
                 ELSE Outcome(Ok, fuse,
                              UpdateState(st, Index(q), Queued(plane_handles)),
                              dev2, ioctl)

\* queue_with_handles refusing only too few handles (< for !=).
CaptureQueueWithHandles_TooFewOnly(q, handles, devOk, st, dev) ==
    IF Len(handles) < NumExpectedPlanes(q)
    THEN Outcome(QueueError(NumPlanesMismatch(Len(handles), NumExpectedPlanes(q)),
                            handles),
                 q.fuse, st, dev, NoIoctl)
    ELSE LET planes == [i \in 1 .. NumExpectedPlanes(q) |-> QBufPlane(0, handles[i])]
         IN  QueueBoundPlanes(q, planes, handles, devOk, st, dev)

\* CaptureQueueable::queue_with_handles for QBuffer<Capture>
CaptureQueueWithHandles(q, handles, devOk, st, dev) ==
    IF Len(handles) # NumExpectedPlanes(q)
    THEN Outcome(QueueError(NumPlanesMismatch(Len(handles), NumExpectedPlanes(q)),
                            handles),
                 q.fuse, st, dev, NoIoctl)
    ELSE LET planes == [i \in 1 .. NumExpectedPlanes(q) |-> QBufPlane(0, handles[i])]
         IN  QueueBoundPlanes(q, planes, handles, devOk, st, dev)

\* queue_with_handles refusing only too long a byte-usage list (> for !=).
OutputQueueWithHandles_TooManyOnly(q, handles, bytes_used, devOk, st, dev) ==
    IF Len(handles) # NumExpectedPlanes(q)
    THEN Outcome(QueueError(NumPlanesMismatch(Len(handles), NumExpectedPlanes(q)),
                            handles),
                 q.fuse, st, dev, NoIoctl)
    ELSE IF Len(bytes_used) > NumExpectedPlanes(q)
    THEN Outcome(QueueError(NumPlanesMismatch(Len(bytes_used), NumExpectedPlanes(q)),
                            handles),
                 q.fuse, st, dev, NoIoctl)
    ELSE LET planes == [i \in 1 .. Len(bytes_used) |->
                            QBufPlane(bytes_used[i], handles[i])]
         IN  QueueBoundPlanes(q, planes, handles, devOk, st, dev)

\* queue_with_handles giving every plane descriptor the byte count of the
\* first plane.
OutputQueueWithHandles_FirstBytes(q, handles, bytes_used, devOk, st, dev) ==
    IF Len(handles) # NumExpectedPlanes(q)
    THEN Outcome(QueueError(NumPlanesMismatch(Len(handles), NumExpectedPlanes(q)),
                            handles),
                 q.fuse, st, dev, NoIoctl)
    ELSE IF Len(bytes_used) # NumExpectedPlanes(q)
    THEN Outcome(QueueError(NumPlanesMismatch(Len(bytes_used), NumExpectedPlanes(q)),
                            handles),
                 q.fuse, st, dev, NoIoctl)
    ELSE LET planes == [i \in 1 .. Len(bytes_used) |->
                            QBufPlane(bytes_used[1], handles[i])]
         IN  QueueBoundPlanes(q, planes, handles, devOk, st, dev)

\* OutputQueueable::queue_with_handles for QBuffer<Output>
OutputQueueWithHandles(q, handles, bytes_used, devOk, st, dev) ==
    IF Len(handles) # NumExpectedPlanes(q)
    THEN Outcome(QueueError(NumPlanesMismatch(Len(handles), NumExpectedPlanes(q)),
                            handles),
                 q.fuse, st, dev, NoIoctl)
    ELSE IF Len(bytes_used) # NumExpectedPlanes(q)
    THEN Outcome(QueueError(NumPlanesMismatch(Len(bytes_used), NumExpectedPlanes(q)),
                            handles),
                 q.fuse, st, dev, NoIoctl)
    ELSE LET planes == [i \in 1 .. Len(bytes_used) |->
                            QBufPlane(bytes_used[i], handles[i])]
         IN  QueueBoundPlanes(q, planes, handles, devOk, st, dev)

\* map_err(|e| e.error): the shortcuts return the error without the handles.
ErrorOnly(out) ==
    IF out.ret.tag = "Err"
    THEN [out EXCEPT !.ret = QueueError(out.ret.error, <<>>)]
    ELSE out

\* The capture shortcut building a single plane descriptor, whatever the
\* buffer's number of planes.
CaptureQueue_OnePlane(q, devOk, st, dev) ==
    LET planes == <<QBufPlane(0, NoHandle)>>
    IN  ErrorOnly(QueueBoundPlanes(q, planes, DefaultHandles, devOk, st, dev))

\* QBuffer<Capture>::queue, the self-backed shortcut
CaptureQueue(q, devOk, st, dev) ==
    LET planes == [i \in 1 .. NumExpectedPlanes(q) |-> QBufPlane(0, NoHandle)]
    IN  ErrorOnly(QueueBoundPlanes(q, planes, DefaultHandles, devOk, st, dev))

\* QBuffer<Output>::queue, the self-backed shortcut
OutputQueue(q, bytes_used, devOk, st, dev) ==
    IF Len(bytes_used) # NumExpectedPlanes(q)
    THEN Outcome(QueueError(NumPlanesMismatch(Len(bytes_used), NumExpectedPlanes(q)),
                            <<>>),
                 q.fuse, st, dev, NoIoctl)
    ELSE LET planes == [i \in 1 .. Len(bytes_used) |->
                            QBufPlane(bytes_used[i], NoHandle)]
         IN  ErrorOnly(QueueBoundPlanes(q, planes, DefaultHandles, devOk, st, dev))

\* ------------------------------------------------------------------ actions
Init ==
    /\ direction \in {"Capture", "Output"}
    /\ \E n \in 1 .. MaxPlanes :
           features = [i \in Slots |-> [index |-> i, planes |-> n]]
    /\ state = [i \in Slots |-> Free]
    /\ qbufs = EmptyBag
    /\ dqbufs = {}
    /\ devQueued = {}
    /\ appPool = Handles
    /\ lastCall = Call("allocate", -1, <<>>, <<>>, NoIoctl, Unit)
    /\ sinceSubmit = [i \in Slots |-> "never"]
    /\ inflight = NoSubmit

\* A slot can be claimed only while it is Free.
CanClaim(i) == state[i] = Free

\* Queue::get_buffer: claim some Free slot. The slot leaves Free for as long
\* as the QBuffer lives: it is PreQueue, requested and not yet queued.
GetBuffer(i) ==
    /\ CanClaim(i)
    /\ state' = UpdateState(state, i, PreQueue)
    /\ qbufs' = qbufs (+) SetToBag({NewQBuffer(features[i])})
    /\ appPool' = Reclaimed
    /\ lastCall' = Call("get_buffer", i, <<>>, <<>>, NoIoctl, Some)
    /\ UNCHANGED <<inflight, direction, features, dqbufs, devQueued, sinceSubmit>>

\* Queue::get_buffer when no slot is Free.
GetBufferNone ==
    /\ \A i \in Slots : ~CanClaim(i)
    /\ appPool' = Reclaimed
    /\ lastCall' = Call("get_buffer", -1, <<>>, <<>>, NoIoctl, None)
    /\ UNCHANGED <<inflight, direction, features, state, qbufs, dqbufs, devQueued, sinceSubmit>>

\* QBuffer::set_timestamp
SetTimestamp(q, timestamp) ==
    /\ qbufs' = (qbufs (-) SetToBag({q})) (+) SetToBag({SetTimestampOf(q, timestamp)})
    /\ appPool' = Reclaimed
    /\ lastCall' = Call("set_timestamp", Index(q), <<>>, <<>>, NoIoctl, Unit)
    /\ UNCHANGED <<inflight, direction, features, state, dqbufs, devQueued, sinceSubmit>>

\* A QBuffer destroyed without being submitted: its fuse is dropped.
DropQBuffer(q) ==
    /\ qbufs' = qbufs (-) SetToBag({q})
    /\ state' = FuseDrop(q.fuse, state)
    /\ appPool' = Reclaimed
    /\ lastCall' = Call("drop_qbuffer", Index(q), <<>>, <<>>, NoIoctl, Unit)
    /\ sinceSubmit' = IF state'[Index(q)] = Free
                      THEN Track(sinceSubmit, Index(q), "free")
                      ELSE sinceSubmit
    /\ UNCHANGED <<inflight, direction, features, dqbufs, devQueued>>

\* A submit operation consumes the QBuffer: whatever its outcome, the buffer
\* is destroyed when the call returns and its fuse is dropped.
Submit(op, q, handles, bytes_used, out) ==
    /\ qbufs' = qbufs (-) SetToBag({q})
    /\ state' = FuseDrop(out.fuse, out.state)
    /\ devQueued' = out.dev
    /\ appPool' = Reclaimed \ Range(handles)
    /\ lastCall' = Call(op, Index(q), handles, bytes_used, out.ioctl, out.ret)
    /\ sinceSubmit' = IF out.ioctl.issued /\ out.ioctl.ok
                      THEN Track(sinceSubmit, Index(q), "submit")
                      ELSE IF state'[Index(q)] = Free
                      THEN Track(sinceSubmit, Index(q), "free")
                      ELSE sinceSubmit
    /\ UNCHANGED <<inflight, direction, features, dqbufs>>

QueueWithHandlesCapture(q, handles, devOk) ==
    /\ direction = "Capture"
    /\ Submit("queue_with_handles", q, handles, <<>>,
              CaptureQueueWithHandles(q, handles, devOk, state, devQueued))

QueueWithHandlesOutput(q, handles, bytes_used, devOk) ==
    /\ direction = "Output"
    /\ Submit("queue_with_handles", q, handles, bytes_used,
              OutputQueueWithHandles(q, handles, bytes_used, devOk, state, devQueued))

QueueCapture(q, devOk) ==
    /\ direction = "Capture"
    /\ Submit("queue", q, <<>>, <<>>, CaptureQueue(q, devOk, state, devQueued))

QueueOutput(q, bytes_used, devOk) ==
    /\ direction = "Output"
    /\ Submit("queue", q, <<>>, bytes_used,
              OutputQueue(q, bytes_used, devOk, state, devQueued))

\* Queue::dequeue: the device returns slot i.
Dequeue(i) ==
    /\ i \in devQueued
    /\ state[i].tag = "Queued"
    /\ devQueued' = devQueued \ {i}
    /\ state' = UpdateState(state, i, Dequeued)
    /\ dqbufs' = dqbufs \cup {[index |-> i, handles |-> state[i].handles,
                               fuse |-> FuseNew(i)]}
    /\ appPool' = Reclaimed
    /\ lastCall' = Call("dequeue", i, <<>>, <<>>, NoIoctl, Some)
    /\ sinceSubmit' = Track(sinceSubmit, i, "retrieve")
    /\ UNCHANGED <<inflight, direction, features, qbufs>>

\* A DQBuffer recycled: its handles go back to the application, its fuse
\* returns the slot to Free.
DropDQBuffer(d) ==
    /\ dqbufs' = dqbufs \ {d}
    /\ state' = FuseDrop(d.fuse, state)
    /\ appPool' = Reclaimed \cup Range(d.handles)
    /\ lastCall' = Call("drop_dqbuffer", d.index, <<>>, <<>>, NoIoctl, Unit)
    /\ sinceSubmit' = IF state'[d.index] = Free
                      THEN Track(sinceSubmit, d.index, "free")
                      ELSE sinceSubmit
    /\ UNCHANGED <<inflight, direction, features, qbufs, devQueued>>

\* The buffers that borrow the queue.
LiveBuffers == BagCardinality(qbufs) + Cardinality(dqbufs)

\* The queue reconfigured: its buffers freed, a format with n planes set and
\* the buffers allocated again, NumBuffers fresh Free entries. Legal only with
\* no entry Queued or Dequeued and no live borrower.
Reallocate(n) ==
    /\ \A i \in Slots : state[i].tag \notin {"Queued", "Dequeued"}
    /\ LiveBuffers = 0
    /\ features' = [i \in Slots |-> [index |-> i, planes |-> n]]
    /\ state' = [i \in Slots |-> Free]
    /\ devQueued' = {}
    /\ appPool' = Reclaimed
    /\ lastCall' = Call("reallocate", -1, <<>>, <<>>, NoIoctl, Unit)
    /\ sinceSubmit' = [i \in Slots |-> "never"]
    /\ UNCHANGED <<inflight, direction, qbufs, dqbufs>>

Next ==
    \/ \E i \in Slots : GetBuffer(i)
    \/ GetBufferNone
    \/ \E q \in BagToSet(qbufs), t \in 0 .. MaxTimestamp : SetTimestamp(q, t)
    \/ \E q \in BagToSet(qbufs) : DropQBuffer(q)
    \/ \E q \in BagToSet(qbufs), k \in HandleCounts(Reclaimed), devOk \in BOOLEAN :
           QueueWithHandlesCapture(q, PopFront(Reclaimed, k), devOk)
    \/ \E q \in BagToSet(qbufs), k \in HandleCounts(Reclaimed),
          b \in FullBytesUsedLists, devOk \in BOOLEAN :
           QueueWithHandlesOutput(q, PopFront(Reclaimed, k), b, devOk)
    \/ \E q \in BagToSet(qbufs), devOk \in BOOLEAN : QueueCapture(q, devOk)
    \/ \E q \in BagToSet(qbufs), b \in FullBytesUsedLists, devOk \in BOOLEAN :
           QueueOutput(q, b, devOk)
    \/ \E i \in Slots : Dequeue(i)
    \/ \E d \in dqbufs : DropDQBuffer(d)
    \/ \E n \in 1 .. MaxPlanes : Reallocate(n)

Spec == Init /\ [][Next]_vars

\* ------------------------------------------------- the submit calls alone
\* One claimed buffer, its timestamp set, and every input a caller can pass
\* to the four submit operations: any handles in any order, any byte counts.
SubmitInit ==
    /\ direction \in {"Capture", "Output"}
    /\ \E n \in 1 .. MaxPlanes :
           features = [i \in Slots |-> [index |-> i, planes |-> n]]
    /\ \E i \in Slots, t \in 0 .. MaxTimestamp :
           /\ state = UpdateState([j \in Slots |-> Free], i, PreQueue)
           /\ qbufs = SetToBag({SetTimestampOf(NewQBuffer(features[i]), t)})
           /\ lastCall = Call("set_timestamp", i, <<>>, <<>>, NoIoctl, Unit)
    /\ dqbufs = {}
    /\ devQueued = {}
    /\ appPool = Handles
    /\ sinceSubmit = [i \in Slots |-> "never"]
    /\ inflight = NoSubmit

SubmitNext ==
    \/ \E q \in BagToSet(qbufs), h \in HandleSets(Reclaimed), devOk \in BOOLEAN :
           QueueWithHandlesCapture(q, h, devOk)
    \/ \E q \in BagToSet(qbufs), h \in HandleSets(Reclaimed),
          b \in BytesUsedLists, devOk \in BOOLEAN :
           QueueWithHandlesOutput(q, h, b, devOk)
    \/ \E q \in BagToSet(qbufs), devOk \in BOOLEAN : QueueCapture(q, devOk)
    \/ \E q \in BagToSet(qbufs), b \in BytesUsedLists, devOk \in BOOLEAN :
           QueueOutput(q, b, devOk)

SubmitSpec == SubmitInit /\ [][SubmitNext]_vars

\* ------------------------------------------------------------------ claims
SubmitOps == {"queue_with_handles", "queue"}
\* The step just taken was a submit operation, and how it ended.
Submitted == lastCall.op \in SubmitOps
SubmitSucceeded == Submitted /\ lastCall.ret.tag = "Ok"
SubmitFailed == Submitted /\ lastCall.ret.tag = "Err"

C1_Transition(i) ==
    LET from == state[i].tag
        to == state'[i].tag
        op == lastCall'.op
        mine == lastCall'.index = i
    IN  IF from = to THEN state'[i] = state[i]
        ELSE /\ mine
             /\ \/ from = "Free" /\ to = "PreQueue" /\ op = "get_buffer"
                \/ from = "PreQueue" /\ to = "Queued" /\ SubmitSucceeded'
                \/ from = "PreQueue" /\ to = "Free"
                       /\ (SubmitFailed' \/ op = "drop_qbuffer")
                \/ from = "Queued" /\ to = "Dequeued" /\ op = "dequeue"
                \/ from = "Dequeued" /\ to = "Free" /\ op = "drop_dqbuffer"

\* What each successful operation leaves its slot in.
C1_Result(i) ==
    lastCall'.index = i =>
        /\ lastCall'.op = "get_buffer" => state[i] = Free /\ state'[i] = PreQueue
        /\ SubmitSucceeded' =>
               state[i] = PreQueue /\ state'[i] = Queued(state'[i].handles)
        /\ lastCall'.op = "dequeue" => state[i].tag = "Queued" /\ state'[i] = Dequeued
        /\ lastCall'.op = "drop_dqbuffer" => state[i] = Dequeued /\ state'[i] = Free

QBuffersOf(i) == {q \in BagToSet(qbufs) : Index(q) = i}
DQBuffersOf(i) == {d \in dqbufs : d.index = i}
\* The device accepted a submit call in the step just taken.
DeviceAccepted == lastCall.ioctl.issued /\ lastCall.ioctl.ok

\* C2: a slot is never double-submitted. A device submit call is issued for
\* slot i only if the device never accepted one for i before, or i has since
\* been retrieved and returned to Free; and a claim never hands out a slot
\* that the device holds or whose post-retrieval buffer is still alive.
C2_NoDoubleSubmit ==
    [][/\ lastCall'.ioctl.issued =>
             LET i == lastCall'.ioctl.index
             IN  /\ sinceSubmit[i] \in {"never", "freed"}
                 /\ i \notin devQueued
                 /\ DQBuffersOf(i) = {}
       /\ (lastCall'.op = "get_buffer" /\ lastCall'.ret = Some) =>
             LET i == lastCall'.index
             IN  /\ sinceSubmit[i] \in {"never", "freed"}
                 /\ i \notin devQueued
                 /\ DQBuffersOf(i) = {}]_vars

\* A slot that was submitted, retrieved and recycled has been submitted again.
C2_Witness ==
    /\ DeviceAccepted
    /\ sinceSubmit[lastCall.ioctl.index] = "resubmitted"

\* The states a slot can be forced into.
SomeBufferStates == {Free, PreQueue, Dequeued, Queued(<<>>), Queued(<<1>>)}

\* C3: a QBuffer destroyed without a completed submit (dropped, or consumed by
\* a submit that failed) leaves its slot Free and claimable again; and the
\* fuse of every live QBuffer would reset its slot to Free from whatever
\* state the slot were in, a second firing changing nothing.
C3_FuseSafety ==
    /\ (lastCall.op = "drop_qbuffer" \/ SubmitFailed) =>
           /\ state[lastCall.index] = Free
           /\ ENABLED GetBuffer(lastCall.index)
    /\ \A q \in BagToSet(qbufs) : \A s \in SomeBufferStates :
           LET forced == UpdateState(state, Index(q), s)
               fired == FuseDrop(q.fuse, forced)
           IN  /\ fired = UpdateState(state, Index(q), Free)
               /\ FuseDrop(q.fuse, fired) = fired

\* A claimed buffer was dropped while the other slot is held by the device.
C3_Witness ==
    /\ lastCall.op = "drop_qbuffer"
    /\ state[lastCall.index] = Free
    /\ devQueued # {}

\* The plane count of the slot the last operation was about.
Expected == features[lastCall.index].planes

\* C4: queue_with_handles with k handles, k different from the slot's plane
\* count, fails with NumPlanesMismatch(k, expected) and issues no device call,
\* in both directions.
C4_HandleCountMismatch ==
    (lastCall.op = "queue_with_handles" /\ Len(lastCall.handles) # Expected) =>
        /\ lastCall.ret.tag = "Err"
        /\ lastCall.ret.error = NumPlanesMismatch(Len(lastCall.handles), Expected)
        /\ ~lastCall.ioctl.issued

\* An output submission with 2 handles for a 1-plane slot was refused.
C4_Witness ==
    /\ lastCall.op = "queue_with_handles"
    /\ direction = "Output"
    /\ Len(lastCall.handles) = 2
    /\ Expected = 1
    /\ lastCall.ret.error = NumPlanesMismatch(2, 1)

\* C5: an output submission whose byte-usage list is shorter than its handle
\* set, or differs in length from the slot's plane count, fails with a
\* plane-count mismatch and issues no device call; a capture submission
\* carries no byte-usage list and reaches the device with the handles alone.
C5_BytesUsedMismatch ==
    /\ (Submitted /\ direction = "Output") =>
           /\ (lastCall.op = "queue_with_handles"
                   /\ Len(lastCall.bytes_used) < Len(lastCall.handles)) =>
                  /\ lastCall.ret.tag = "Err"
                  /\ lastCall.ret.error.kind = "NumPlanesMismatch"
                  /\ ~lastCall.ioctl.issued
           /\ ((lastCall.op = "queue_with_handles" => Len(lastCall.handles) = Expected)
                   /\ Len(lastCall.bytes_used) # Expected) =>
                  /\ lastCall.ret.tag = "Err"
                  /\ lastCall.ret.error =
                         NumPlanesMismatch(Len(lastCall.bytes_used), Expected)
                  /\ ~lastCall.ioctl.issued
    /\ (Submitted /\ direction = "Capture") =>
           /\ lastCall.bytes_used = <<>>
           /\ (lastCall.op = "queue" \/ Len(lastCall.handles) = Expected) =>
                  lastCall.ioctl.issued

\* An output submission with the right handles and too short a byte-usage
\* list was refused.
C5_Witness ==
    /\ lastCall.op = "queue_with_handles"
    /\ direction = "Output"
    /\ Len(lastCall.handles) = Expected
    /\ Len(lastCall.bytes_used) < Len(lastCall.handles)
    /\ lastCall.ret.error = NumPlanesMismatch(Len(lastCall.bytes_used), Expected)

\* C6: the QueueError of every failed queue_with_handles carries the handle
\* set that was passed in: the same handles in the same order.
C6_HandlesReturned ==
    (lastCall.op = "queue_with_handles" /\ lastCall.ret.tag = "Err") =>
        lastCall.ret.plane_handles = lastCall.handles

\* The device rejected a submission of two handles, passed in descending order.
C6_Witness ==
    /\ lastCall.op = "queue_with_handles"
    /\ lastCall.ret.tag = "Err"
    /\ lastCall.ret.error = IoctlFailed
    /\ Len(lastCall.handles) = 2
    /\ lastCall.handles[1] > lastCall.handles[2]
    /\ lastCall.ret.plane_handles = lastCall.handles

\* C7: every submit returns Ok or an error value, an error exactly when the
\* device accepted no call; after a failed submit the slot is Free with no
\* handle set in the registry, the device's set of submitted slots is as it
\* was, and the slot can be claimed again.
C7_FailedSubmit ==
    [][/\ Submitted' =>
             /\ lastCall'.ret.tag \in {"Ok", "Err"}
             /\ lastCall'.ret.tag = "Err" <=> ~DeviceAccepted'
       /\ SubmitFailed' =>
             /\ lastCall'.ret.error.kind \in {"NumPlanesMismatch", "IoctlError"}
             /\ state'[lastCall'.index] = Free
             /\ state'[lastCall'.index].handles = <<>>
             /\ devQueued' = devQueued
             /\ \E i \in Slots : i = lastCall'.index /\ CanClaim(i)']_vars

\* The device rejected a shortcut submit while it held the other slot.
C7_Witness ==
    /\ lastCall.op = "queue"
    /\ lastCall.ret.tag = "Err"
    /\ lastCall.ret.error = IoctlFailed
    /\ state[lastCall.index] = Free
    /\ devQueued # {}

\* How many times handle h occurs in a handle set.
Occurrences(h, handles) == Cardinality({k \in DOMAIN handles : handles[k] = h})
\* How many owners handle h has: the application (its pool, a returned
\* QueueError, a post-retrieval buffer) and the registry (a Queued slot).
AppOwners(h) ==
    (IF h \in appPool THEN 1 ELSE 0)
    + Occurrences(h, lastCall.ret.plane_handles)
    + Cardinality({d \in dqbufs : h \in Range(d.handles)})
RegistryOwners(h) == Cardinality({i \in Slots : h \in Range(state[i].handles)})

Exclusive ==
    /\ \A h \in Handles : AppOwners(h) + RegistryOwners(h) = 1
    /\ \A i \in Slots : state[i].handles # <<>> => state[i].tag = "Queued"
    /\ \A i \in Slots : Occurrences(NoHandle, state[i].handles) = 0

\* C8: every handle has exactly one owner in every state, the registry
\* exactly while its slot is Queued; a successful submit leaves the slot
\* Queued with the submitted handle set, a retrieve leaves it Dequeued with
\* none and the post-retrieval buffer holding what the slot held.
C8_ExclusiveOwnership ==
    /\ Exclusive
    /\ [][/\ Exclusive'
          /\ (SubmitSucceeded' /\ lastCall'.op = "queue_with_handles") =>
                 state'[lastCall'.index] = Queued(lastCall'.handles)
          /\ lastCall'.op = "dequeue" =>
                 /\ state'[lastCall'.index] = Dequeued
                 /\ {d \in dqbufs' : d.index = lastCall'.index} =
                        {[index |-> lastCall'.index,
                          handles |-> state[lastCall'.index].handles,
                          fuse |-> FuseNew(lastCall'.index)]}]_vars

\* A retrieved buffer holds the two handles its slot was submitted with.
C8_Witness ==
    /\ lastCall.op = "dequeue"
    /\ \E d \in dqbufs : d.index = lastCall.index /\ Len(d.handles) = 2
    /\ state[lastCall.index] = Dequeued

C10_ClaimFreeSlot ==
    /\ [][lastCall'.op = "get_buffer" =>
             IF \E i \in Slots : state[i] = Free
             THEN /\ lastCall'.ret = Some
                  /\ state[lastCall'.index] = Free
                  /\ QBuffersOf(lastCall'.index) = {}
                  /\ \E q \in BagToSet(qbufs') :
                         /\ qbufs' = qbufs (+) SetToBag({q})
                         /\ Index(q) = lastCall'.index
                         /\ NumExpectedPlanes(q) = features[lastCall'.index].planes
             ELSE /\ lastCall'.ret = None
                  /\ qbufs' = qbufs]_vars
    /\ [](\A i \in Slots : (ENABLED GetBuffer(i)) <=> state[i] = Free)
    /\ [](ENABLED GetBufferNone <=> \A i \in Slots : state[i] # Free)

\* Scenario A: two one-plane capture slots, one Queued with 1 handle, the
\* other held by a live QBuffer, and the third claim returned none.
C10_Witness ==
    /\ direction = "Capture"
    /\ NumBuffers = 2
    /\ \A i \in Slots : features[i].planes = 1
    /\ \E i, j \in Slots :
           /\ state[i].tag = "Queued" /\ Len(state[i].handles) = 1
           /\ state[j] = PreQueue /\ QBuffersOf(j) # {}
    /\ lastCall.op = "get_buffer"
    /\ lastCall.ret = None

\* --------------------------------------------------------------- liveness
\* The QBuffer bound to slot i is consumed: destroyed, or submitted by one of
\* the four submit operations.
ConsumeQBuffer(i) ==
    \E q \in QBuffersOf(i) :
        \/ DropQBuffer(q)
        \/ \E k \in HandleCounts(Reclaimed), devOk \in BOOLEAN :
               QueueWithHandlesCapture(q, PopFront(Reclaimed, k), devOk)
        \/ \E k \in HandleCounts(Reclaimed), b \in FullBytesUsedLists,
              devOk \in BOOLEAN :
               QueueWithHandlesOutput(q, PopFront(Reclaimed, k), b, devOk)
        \/ \E devOk \in BOOLEAN : QueueCapture(q, devOk)
        \/ \E b \in FullBytesUsedLists, devOk \in BOOLEAN : QueueOutput(q, b, devOk)

\* The DQBuffer of slot i is recycled.
RecycleDQBuffer(i) == \E d \in DQBuffersOf(i) : DropDQBuffer(d)

\* Every claimed QBuffer is eventually submitted or destroyed, the device
\* eventually returns every slot it holds, every DQBuffer is eventually
\* recycled.
Progress ==
    \A i \in Slots :
        /\ WF_vars(ConsumeQBuffer(i))
        /\ WF_vars(Dequeue(i))
        /\ WF_vars(RecycleDQBuffer(i))

LiveSpec == Init /\ [][Next]_vars /\ Progress

\* C11: no slot is ever lost. Under Progress every slot that is not Free
\* becomes Free again, whatever its state and however its submit ended; and a
\* slot that is not Free always has the one thing that will free it: a live
\* QBuffer, the device holding it, or a live DQBuffer.
C11_NoSlotLost ==
    /\ \A i \in Slots : (state[i] # Free) ~> (state[i] = Free)
    /\ [](\A i \in Slots :
             /\ state[i] = PreQueue => QBuffersOf(i) # {}
             /\ state[i].tag = "Queued" => i \in devQueued
             /\ state[i] = Dequeued => DQBuffersOf(i) # {})

\* The device rejected the submit of a slot that had already gone round the
\* cycle once, and the slot is Free again.
C11_Witness ==
    /\ SubmitFailed
    /\ lastCall.ret.error = IoctlFailed
    /\ sinceSubmit[lastCall.index] = "freed"
    /\ state[lastCall.index] = Free

\* C12: the capture shortcut queue() on a slot of n planes issues one device
\* submit call for the slot, carrying n plane descriptors of byte-usage 0
\* and no handle; when the device accepts it the slot is Queued with the
\* default handle set, when it rejects it the caller gets the device error
\* alone.
C12_CaptureShortcut ==
    (lastCall.op = "queue" /\ direction = "Capture") =>
        /\ lastCall.ioctl.issued
        /\ lastCall.ioctl.index = lastCall.index
        /\ lastCall.ioctl.planes = [k \in 1 .. Expected |-> QBufPlane(0, NoHandle)]
        /\ lastCall.ioctl.ok =>
               /\ lastCall.ret = Ok
               /\ state[lastCall.index] = Queued(DefaultHandles)
               /\ lastCall.index \in devQueued
        /\ ~lastCall.ioctl.ok =>
               /\ lastCall.ret = QueueError(IoctlFailed, <<>>)
               /\ state[lastCall.index] = Free

\* Scenario C on a two-plane slot: the shortcut was accepted with two
\* zero-byte-usage descriptors.
C12_Witness ==
    /\ lastCall.op = "queue"
    /\ direction = "Capture"
    /\ lastCall.ret = Ok
    /\ Len(lastCall.ioctl.planes) = 2
    /\ state[lastCall.index] = Queued(DefaultHandles)

\* ------------------------------------- queue_bound_planes, step by step
Idle == inflight = NoSubmit

\* A submit operation up to the return of ioctl::qbuf. A call that fails, in
\* its checks or in the device, returns at once: the buffer is destroyed with
\* its fuse as it is. A call the device accepts goes on, the buffer (self)
\* now owned by it; `out` is what the operation computes from its inputs.
BeginSubmit(op, q, handles, bytes_used, plane_handles, out) ==
    /\ Idle
    /\ IF out.ioctl.issued /\ out.ioctl.ok
       THEN /\ qbufs' = qbufs (-) SetToBag({q})
            /\ devQueued' = devQueued \cup {out.ioctl.index}
            /\ inflight' = [pc |-> "disarm", op |-> op, index |-> Index(q),
                            handles |-> handles, bytes_used |-> bytes_used,
                            plane_handles |-> plane_handles, ioctl |-> out.ioctl,
                            fuse |-> q.fuse, disarms |-> 0]
            /\ appPool' = Reclaimed \ Range(handles)
            /\ lastCall' = Call("qbuf", Index(q), handles, bytes_used, out.ioctl,
                                Plain("Pending"))
            /\ sinceSubmit' = Track(sinceSubmit, Index(q), "submit")
            /\ UNCHANGED <<direction, features, state, dqbufs>>
       ELSE Submit(op, q, handles, bytes_used, out)

BeginQueueWithHandlesCapture(q, handles, devOk) ==
    /\ direction = "Capture"
    /\ BeginSubmit("queue_with_handles", q, handles, <<>>, handles,
                   CaptureQueueWithHandles(q, handles, devOk, state, devQueued))

BeginQueueWithHandlesOutput(q, handles, bytes_used, devOk) ==
    /\ direction = "Output"
    /\ BeginSubmit("queue_with_handles", q, handles, bytes_used, handles,
                   OutputQueueWithHandles(q, handles, bytes_used, devOk, state,
                                          devQueued))

BeginQueueCapture(q, devOk) ==
    /\ direction = "Capture"
    /\ BeginSubmit("queue", q, <<>>, <<>>, DefaultHandles,
                   CaptureQueue(q, devOk, state, devQueued))

BeginQueueOutput(q, bytes_used, devOk) ==
    /\ direction = "Output"
    /\ BeginSubmit("queue", q, <<>>, bytes_used, DefaultHandles,
                   OutputQueue(q, bytes_used, devOk, state, devQueued))

\* self.fuse.disarm()
DisarmStep ==
    /\ inflight.pc = "disarm"
    /\ inflight' = [inflight EXCEPT !.fuse = FuseDisarm(@), !.disarms = @ + 1,
                                    !.pc = "update"]
    /\ UNCHANGED <<direction, features, state, qbufs, dqbufs, devQueued, appPool,
                   lastCall, sinceSubmit>>

\* buffer_info.get(index).expect(..).update_state(Queued(plane_handles.into()))
UpdateStep ==
    /\ inflight.pc = "update"
    /\ IF inflight.index \in DOMAIN state
       THEN /\ state' = UpdateState(state, inflight.index,
                                    Queued(inflight.plane_handles))
            /\ inflight' = [inflight EXCEPT !.pc = "return"]
            /\ UNCHANGED lastCall
       ELSE /\ state' = FuseDrop(inflight.fuse, state)
            /\ inflight' = NoSubmit
            /\ lastCall' = Call(inflight.op, inflight.index, inflight.handles,
                                inflight.bytes_used, inflight.ioctl, Panic)
    /\ UNCHANGED <<direction, features, qbufs, dqbufs, devQueued, appPool,
                   sinceSubmit>>

\* Ok(()): the call returns and self is destroyed, its fuse with it.
ReturnStep ==
    /\ inflight.pc = "return"
    /\ state' = FuseDrop(inflight.fuse, state)
    /\ inflight' = NoSubmit
    /\ lastCall' = Call(inflight.op, inflight.index, inflight.handles,
                        inflight.bytes_used, inflight.ioctl, Ok)
    /\ UNCHANGED <<direction, features, qbufs, dqbufs, devQueued, appPool,
                   sinceSubmit>>

\* One thread: a submit runs to its return before anything else is called.
StepNext ==
    \/ \E i \in Slots : Idle /\ GetBuffer(i)
    \/ Idle /\ GetBufferNone
    \/ \E q \in BagToSet(qbufs), t \in 0 .. MaxTimestamp : Idle /\ SetTimestamp(q, t)
    \/ \E q \in BagToSet(qbufs) : Idle /\ DropQBuffer(q)
    \/ \E q \in BagToSet(qbufs), k \in HandleCounts(Reclaimed), devOk \in BOOLEAN :
           BeginQueueWithHandlesCapture(q, PopFront(Reclaimed, k), devOk)
    \/ \E q \in BagToSet(qbufs), k \in HandleCounts(Reclaimed),
          b \in FullBytesUsedLists, devOk \in BOOLEAN :
           BeginQueueWithHandlesOutput(q, PopFront(Reclaimed, k), b, devOk)
    \/ \E q \in BagToSet(qbufs), devOk \in BOOLEAN : BeginQueueCapture(q, devOk)
    \/ \E q \in BagToSet(qbufs), b \in FullBytesUsedLists, devOk \in BOOLEAN :
           BeginQueueOutput(q, b, devOk)
    \/ DisarmStep
    \/ UpdateStep
    \/ ReturnStep
    \/ \E i \in Slots : Idle /\ Dequeue(i)
    \/ \E d \in dqbufs : Idle /\ DropDQBuffer(d)
    \/ \E n \in 1 .. MaxPlanes : Idle /\ Reallocate(n)

StepSpec == Init /\ [][StepNext]_vars

\* C13: the fuse of a buffer is disarmed at most once, by a submit whose
\* device call has already returned success; a submit that fails, in its
\* checks or in the device, never reaches the disarm and its armed fuse frees
\* the slot when the buffer is destroyed; a disarmed fuse changes nothing when
\* it is destroyed, so the slot the submit set to Queued stays Queued.
C13_FuseDisarm ==
    [][/\ inflight'.disarms <= 1
       /\ (inflight.pc = "idle" /\ inflight'.pc # "idle") =>
              /\ inflight'.fuse.armed
              /\ inflight'.disarms = 0
              /\ inflight'.ioctl.issued /\ inflight'.ioctl.ok
       /\ (inflight.pc # "idle" /\ inflight'.pc # "idle"
               /\ inflight'.fuse # inflight.fuse) =>
              /\ inflight.ioctl.issued /\ inflight.ioctl.ok
              /\ inflight.index \in devQueued
              /\ inflight.fuse.armed /\ ~inflight'.fuse.armed
              /\ inflight.disarms = 0 /\ inflight'.disarms = 1
              /\ state' = state
       /\ SubmitFailed' =>
              /\ inflight = NoSubmit /\ inflight' = NoSubmit
              /\ ~(lastCall'.ioctl.issued /\ lastCall'.ioctl.ok)
              /\ state[lastCall'.index] = PreQueue
              /\ state'[lastCall'.index] = Free
       /\ (inflight.pc = "return" /\ inflight'.pc = "idle") =>
              /\ ~inflight.fuse.armed /\ inflight.disarms = 1
              /\ state' = state
              /\ state'[inflight.index] = Queued(inflight.plane_handles)
              /\ lastCall'.ret = Ok]_vars

\* A submit the device accepted has disarmed its fuse once and set its slot
\* Queued; the buffer is about to be destroyed.
C13_Witness ==
    /\ inflight.pc = "return"
    /\ inflight.disarms = 1
    /\ ~inflight.fuse.armed
    /\ state[inflight.index] = Queued(inflight.plane_handles)

C15_PlaneDescriptors ==
    /\ [](lastCall.ioctl.issued =>
             LET planes == lastCall.ioctl.planes
             IN  /\ Submitted
                 /\ lastCall.ioctl.index = lastCall.index
                 /\ Len(planes) = Expected
                 /\ direction = "Output" =>
                        /\ Len(lastCall.bytes_used) = Expected
                        /\ \A k \in 1 .. Expected :
                               planes[k].bytesused = lastCall.bytes_used[k]
                 /\ direction = "Capture" =>
                        \A k \in 1 .. Expected : planes[k].bytesused = 0
                 /\ \A k \in 1 .. Expected :
                        planes[k].handle = IF lastCall.op = "queue_with_handles"
                                           THEN lastCall.handles[k]
                                           ELSE NoHandle)
    /\ [][lastCall'.ioctl.issued =>
             /\ state[lastCall'.ioctl.index] = PreQueue
             /\ \E q \in QBuffersOf(lastCall'.ioctl.index) :
                    /\ qbufs' = qbufs (-) SetToBag({q})
                    /\ lastCall'.ioctl.timestamp = q.timestamp
                    /\ Len(lastCall'.ioctl.planes) = NumExpectedPlanes(q)]_vars

\* An output submission of two planes reached the device with the byte
\* counts 1 and 0, in that order.
C15_Witness ==
    /\ lastCall.op = "queue_with_handles"
    /\ direction = "Output"
    /\ lastCall.ioctl.issued
    /\ lastCall.bytes_used = <<1, 0>>
    /\ lastCall.ioctl.planes[1].bytesused = 1
    /\ lastCall.ioctl.planes[2].bytesused = 0

\* ------------------------------------------- a second thread that retrieves
\* Queue::dequeue by another thread when the device returns a slot whose
\* registry entry is not Queued: the retrieve aborts, having either only read
\* the entry or already replaced it by Dequeued.
DequeueInconsistent(i) ==
    /\ i \in devQueued
    /\ state[i].tag # "Queued"
    /\ devQueued' = devQueued \ {i}
    /\ state' \in {state, UpdateState(state, i, Dequeued)}
    /\ appPool' = Reclaimed
    /\ lastCall' = Call("dequeue", i, <<>>, <<>>, NoIoctl, Panic)
    /\ sinceSubmit' = Track(sinceSubmit, i, "retrieve")
    /\ UNCHANGED <<inflight, direction, features, qbufs, dqbufs>>

\* The submitting thread as in StepNext, and a thread that retrieves and
\* recycles while a submit is between two of its statements.
ConcNext ==
    \/ StepNext
    \/ \E i \in Slots : ~Idle /\ Dequeue(i)
    \/ \E i \in Slots : DequeueInconsistent(i)
    \/ \E d \in dqbufs : ~Idle /\ DropDQBuffer(d)

ConcSpec == Init /\ [][ConcNext]_vars

\* C16 as stated: a retrieve that obtains slot i from the device finds its
\* registry entry Queued, and no slot is Queued in the registry once the
\* device has returned it.
C16_RetrieveFindsQueued ==
    /\ [][\A i \in Slots :
             (i \in devQueued /\ i \notin devQueued' /\ lastCall'.op = "dequeue") =>
                 state[i].tag = "Queued"]_vars
    /\ [](\A i \in Slots : state[i].tag = "Queued" => i \in devQueued)

\* How many live pre-submission buffers are bound to slot i.
LiveQBuffers(i) ==
    BagCardinality([q \in QBuffersOf(i) |-> CopiesIn(q, qbufs)])

\* C17: at most one live QBuffer is bound to a slot, exactly while the slot
\* is PreQueue, and its fuse is armed on that slot; a claim never hands out a
\* slot that a live QBuffer holds; the slot of a QBuffer that is destroyed is
\* PreQueue, never one that the device holds or that is Queued or Dequeued.
C17_OneQBufferPerSlot ==
    /\ [](\A i \in Slots :
             /\ LiveQBuffers(i) <= 1
             /\ LiveQBuffers(i) = 1 <=> state[i] = PreQueue
             /\ \A q \in QBuffersOf(i) : q.fuse = FuseNew(i))
    /\ [](\A q \in BagToSet(qbufs) : Index(q) \in Slots)
    /\ [][(lastCall'.op = "get_buffer" /\ lastCall'.ret = Some) =>
             \E i \in Slots :
                 /\ i = lastCall'.index
                 /\ LiveQBuffers(i) = 0
                 /\ LiveQBuffers(i)' = 1]_vars
    /\ [][lastCall'.op = "drop_qbuffer" =>
             /\ state[lastCall'.index] = PreQueue
             /\ lastCall'.index \notin devQueued
             /\ \A j \in Slots : state[j].tag = "Queued" => state'[j] = state[j]]_vars

\* Each slot is held by one live QBuffer and a further claim found none free.
C17_Witness ==
    /\ \A i \in Slots : LiveQBuffers(i) = 1 /\ state[i] = PreQueue
    /\ lastCall.op = "get_buffer"
    /\ lastCall.ret = None

\* C18: the registry lookup of a successful submit never fails. Every live
\* QBuffer, and every submit between its device call and its return, is bound
\* to an index of the registry, below the number of allocated slots, and
\* expects the number of planes of that entry; no submit ends in the
\* "Inconsistent buffer state!" abort.
C18_LookupNeverFails ==
    /\ DOMAIN state = Slots
    /\ \A q \in BagToSet(qbufs) :
           /\ Index(q) \in DOMAIN state
           /\ Index(q) >= 0 /\ Index(q) < NumBuffers
           /\ NumExpectedPlanes(q) = features[Index(q)].planes
    /\ ~Idle =>
           /\ inflight.index \in DOMAIN state
           /\ Len(inflight.ioctl.planes) = features[inflight.index].planes
    /\ lastCall.ret # Panic

\* A submit on the last slot has been accepted by the device and is about to
\* look its entry up.
C18_Witness ==
    /\ inflight.pc = "update"
    /\ inflight.index = NumBuffers - 1
    /\ inflight.index \in DOMAIN state

\* The operations on a pre-submission buffer.
QBufferOps == {"set_timestamp", "drop_qbuffer", "queue", "queue_with_handles"}

\* C19: an operation on a QBuffer bound to slot i (set_timestamp, a submit
\* that succeeds or fails, its destruction) leaves the state and the handle
\* set of every other slot as they were; set_timestamp changes no slot at
\* all, nor what the device holds, and changes only the buffer's timestamp;
\* index and num_expected_planes only read the buffer.
C19_FrameEffects ==
    /\ [][lastCall'.op \in QBufferOps =>
             /\ \A j \in Slots \ {lastCall'.index} : state'[j] = state[j]
             /\ devQueued' \ {lastCall'.index} = devQueued \ {lastCall'.index}
             /\ lastCall'.op = "set_timestamp" =>
                    /\ state' = state
                    /\ devQueued' = devQueued
                    /\ BagCardinality(qbufs') = BagCardinality(qbufs)]_vars
    /\ [](\A q \in BagToSet(qbufs) : \A t \in 0 .. MaxTimestamp :
             /\ Index(q) = q.index
             /\ NumExpectedPlanes(q) = q.num_planes
             /\ SetTimestampOf(q, t) = [q EXCEPT !.timestamp = t]
             /\ Index(SetTimestampOf(q, t)) = Index(q)
             /\ NumExpectedPlanes(SetTimestampOf(q, t)) = NumExpectedPlanes(q)
             /\ SetTimestampOf(q, t).fuse = q.fuse)

\* A buffer's timestamp was set while the other slot is Queued with two
\* handles.
C19_Witness ==
    /\ lastCall.op = "set_timestamp"
    /\ \E j \in Slots \ {lastCall.index} :
           state[j].tag = "Queued" /\ Len(state[j].handles) = 2
    /\ \E q \in QBuffersOf(lastCall.index) : q.timestamp = 1
====
